---- MODULE Spec2Model ----
(***************************************************************************)
(* Model of app.py, the network sector analysis dashboard: the table       *)
(* locator (find_table_start, find_table_end, display_table_from_sheet),   *)
(* the image locator (extract_images_from_sheet), the loader (load_data)   *)
(* and the password gate (check_password) around the main script.          *)
(*                                                                         *)
(* Text is a sequence of one-character strings, so that substring tests,   *)
(* the rendering of a row by Series.to_string, the stringification of a    *)
(* header by astype(str) and the f-string suffix are computed, not         *)
(* assumed.  Row and column indices are zero-based as in pandas; TLA+      *)
(* sequences are one-based, so row i of the sheet is grid[i + 1].          *)
(***************************************************************************)
EXTENDS Integers, Sequences, FiniteSets, TLC

\* ------------------------------------------------------------- bounds
\* Sheets of the table locator have at most MaxRows rows, at most MaxCols
\* columns and at most MaxCells cells.
MaxRows == 5
MaxCols == 3
MaxCells == 10
\* Header rows of the column-dedup loop have at most MaxHeader cells.
MaxHeader == 4

\* --------------------------------------------------------------- text
Digit == <<"0", "1", "2", "3", "4", "5", "6", "7", "8", "9">>

\* str(n) of a non-negative integer.
RECURSIVE Digits(_)
Digits(n) ==
    IF n < 10 THEN <<Digit[n + 1]>>
    ELSE Digits(n \div 10) \o <<Digit[(n % 10) + 1]>>

\* Python's  t in s  on strings.
Contains(s, t) ==
    \E i \in 0..(Len(s) - Len(t)) : SubSeq(s, i + 1, i + Len(t)) = t

\* -------------------------------------------------------------- cells
\* A cell of a sheet read with header=None: empty (NaN) or a text.  The
\* sheets of the model hold no numeric cells.
NullCell == [kind |-> "null", text |-> <<>>]
Text(s) == [kind |-> "text", text |-> s]

\* pandas isnull() of one cell.
IsNull(c) == c.kind = "null"

\* Series.isnull().all() of one row.
AllNull(row) == \A c \in 1..Len(row) : IsNull(row[c])

\* The texts the sheets of the model are made of.
sA == <<"A">>
sB == <<"B">>
sA1 == <<"A", "_", "1">>
GridCells == {NullCell, Text(sA), Text(sA1)}
Titles == {<<"A">>, <<"1">>}

\* str(value) of one header cell, as Index.astype(str) gives it.
Str(c) == IF IsNull(c) THEN <<"n", "a", "n">> ELSE c.text

\* A value as Series.to_string prints it.
Repr(c) == IF IsNull(c) THEN <<"N", "a", "N">> ELSE c.text

\* Series.to_string() of a row of a header=None sheet: one line per column,
\* the column label, blanks, the value.
RECURSIVE LinesFrom(_, _)
LinesFrom(row, c) ==
    IF c > Len(row) THEN <<>>
    ELSE Digits(c - 1) \o <<" ", " ">> \o Repr(row[c])
         \o (IF c < Len(row) THEN <<"\n">> ELSE <<>>) \o LinesFrom(row, c + 1)

to_string(row) == LinesFrom(row, 1)

\* ------------------------------------------------------ table locator
None == -1

\* The title match of one row.
RowMatches(row, header_text) == Contains(to_string(row), header_text)

find_table_start(df, header_text) ==
    IF \E i \in 0..(Len(df) - 1) : RowMatches(df[i + 1], header_text)
    THEN CHOOSE i \in 0..(Len(df) - 1) :
            /\ RowMatches(df[i + 1], header_text)
            /\ \A j \in 0..(i - 1) : ~RowMatches(df[j + 1], header_text)
    ELSE None

\* Mutant of EndsTable: isnull().any() in place of isnull().all().
EndsTable_AnyNull(row) == \E c \in 1..Len(row) : IsNull(row[c])

\* The test of one row in find_table_end.
EndsTable(row) == AllNull(row)

RECURSIVE ScanEnd(_, _)
ScanEnd(df, i) ==
    IF i >= Len(df) THEN Len(df)
    ELSE IF EndsTable(df[i + 1]) THEN i
    ELSE ScanEnd(df, i + 1)

find_table_end(df, start_search_from) == ScanEnd(df, start_search_from)

\* One pass of the duplicate-column loop: seen is the dict, cols the list
\* new_columns so far.
EmptyDict == [x \in {} |-> 0]

\* Mutant of DedupStep: the count of a repeated name is not advanced.
DedupStep_NoIncrement(st, col) ==
    IF col \notin DOMAIN st.seen
    THEN [seen |-> [x \in DOMAIN st.seen \cup {col} |->
                        IF x = col THEN 1 ELSE st.seen[x]],
          cols |-> Append(st.cols, col)]
    ELSE [seen |-> st.seen,
          cols |-> Append(st.cols, col \o <<"_">> \o Digits(st.seen[col]))]

DedupStep(st, col) ==
    IF col \notin DOMAIN st.seen
    THEN [seen |-> [x \in DOMAIN st.seen \cup {col} |->
                        IF x = col THEN 1 ELSE st.seen[x]],
          cols |-> Append(st.cols, col)]
    ELSE [seen |-> [st.seen EXCEPT ![col] = @ + 1],
          cols |-> Append(st.cols, col \o <<"_">> \o Digits(st.seen[col]))]

RECURSIVE DedupFrom(_, _, _)
DedupFrom(names, i, st) ==
    IF i > Len(names) THEN st
    ELSE DedupFrom(names, i + 1, DedupStep(st, names[i]))

\* table_df.columns.astype(str)
AsTypeStr(header_row) == [c \in 1..Len(header_row) |-> Str(header_row[c])]

Dedup(header_row) ==
    DedupFrom(AsTypeStr(header_row), 1, [seen |-> EmptyDict, cols |-> <<>>]).cols

\* The increasing sequence of the members of a finite set of integers.
RECURSIVE Sorted(_)
Sorted(S) ==
    IF S = {} THEN <<>>
    ELSE LET m == CHOOSE x \in S : \A y \in S : x <= y
         IN <<m>> \o Sorted(S \ {m})

\* dropna(how='all', axis=0): the positions of the rows kept.
DropNaRows(rows) ==
    Sorted({r \in 1..Len(rows) : ~AllNull(rows[r])})

\* Mutant of DropNaCols: the column pass of dropna is left out.
DropNaCols_KeepAll(rows, keptRows, width) == Sorted(1..width)

\* dropna(how='all', axis=1): the positions of the columns kept, given the
\* rows that are left.
DropNaCols(rows, keptRows, width) ==
    Sorted({c \in 1..width :
               \E k \in 1..Len(keptRows) : ~IsNull(rows[keptRows[k]][c])})

\* A frame as st.dataframe receives it: the column names, the index labels
\* left by reset_index(drop=True) and dropna, the cells, and for each
\* column its position in the sheet.
Frame(rows, names) ==
    LET width == Len(names)
        kr == DropNaRows(rows)
        kc == DropNaCols(rows, kr, width)
    IN [columns |-> [c \in 1..Len(kc) |-> names[kc[c]]],
        index |-> [r \in 1..Len(kr) |-> kr[r] - 1],
        cells |-> [r \in 1..Len(kr) |-> [c \in 1..Len(kc) |-> rows[kr[r]][kc[c]]]],
        origin |-> [c \in 1..Len(kc) |-> kc[c] - 1]]

NoFrame == [columns |-> <<>>, index |-> <<>>, cells |-> <<>>, origin |-> <<>>]

Forbidden == <<"F", "o", "r", "b", "i", "d", "d", "e", "n">>

\* ------------------------------------------------------ image locator
PlotRow == 19
Plot1Col == 0
Plot2Col == 11

\* Mutant of Classify: a filled slot is taken again by a later image.
Classify_Overwrite(imgs, image) ==
    IF image.row >= PlotRow /\ image.col = Plot1Col
    THEN [k \in DOMAIN imgs \cup {"plot1"} |->
              IF k = "plot1" THEN image.ref ELSE imgs[k]]
    ELSE IF image.row >= PlotRow /\ image.col = Plot2Col
    THEN [k \in DOMAIN imgs \cup {"plot2"} |->
              IF k = "plot2" THEN image.ref ELSE imgs[k]]
    ELSE imgs

\* The if/elif of the image loop: the dict after one image.
Classify(imgs, image) ==
    IF "plot1" \notin DOMAIN imgs /\ image.row >= PlotRow /\ image.col = Plot1Col
    THEN [k \in DOMAIN imgs \cup {"plot1"} |->
              IF k = "plot1" THEN image.ref ELSE imgs[k]]
    ELSE IF "plot2" \notin DOMAIN imgs /\ image.row >= PlotRow
            /\ image.col = Plot2Col
    THEN [k \in DOMAIN imgs \cup {"plot2"} |->
              IF k = "plot2" THEN image.ref ELSE imgs[k]]
    ELSE imgs

\* ------------------------------------------------------------- loader
Introduction == "Introduction"
MissingFile == [kind |-> "missing", sheets |-> EmptyDict, intro_rows |-> 0]
UnreadableFile == [kind |-> "unreadable", sheets |-> EmptyDict, intro_rows |-> 0]
NotRun == [kind |-> "notrun"]
Raised == [kind |-> "raised"]

\* Mutant of SectorSheetNames: the index sheet is not filtered out.
SectorSheetNames_All(all_sheet_names) == all_sheet_names

\* sector_sheet_names: every sheet name other than "Introduction".
SectorSheetNames(all_sheet_names) ==
    {name \in all_sheet_names : name # Introduction}

\* What load_data returns with  return None, None.
NoData(errs) ==
    [kind |-> "returned", none |-> TRUE, sector_data |-> EmptyDict,
     summary_df |-> [content |-> "", rows |-> 0], errors |-> errs]

\* load_data(excel_path), without the cache: what it returns and which
\* errors it reports.  f.sheets maps each sheet name to the sheet's content.
load_data(f) ==
    IF f.kind = "missing"
    THEN NoData({"file_not_found"})
    ELSE IF f.kind = "unreadable"
    THEN \* pd.ExcelFile raises
         Raised
    ELSE IF Introduction \notin DOMAIN f.sheets
    THEN NoData({"introduction_not_found"})
    ELSE [kind |-> "returned", none |-> FALSE,
          sector_data |-> [name \in SectorSheetNames(DOMAIN f.sheets) |->
                              f.sheets[name]],
          summary_df |-> [content |-> f.sheets[Introduction],
                          rows |-> f.intro_rows],
          errors |-> {}]

\* ------------------------------------------------------ password gate
Password == "mtn123"

\* Mutant of password_entered: the comparison is inverted.
password_entered_Inverted(ss) ==
    IF ss["password"] # Password
    THEN [k \in (DOMAIN ss \cup {"password_correct"}) \ {"password"} |->
              IF k = "password_correct" THEN "True" ELSE ss[k]]
    ELSE [k \in DOMAIN ss \cup {"password_correct"} |->
              IF k = "password_correct" THEN "False" ELSE ss[k]]

\* The on_change callback of the password input.
password_entered(ss) ==
    IF ss["password"] = Password
    THEN [k \in (DOMAIN ss \cup {"password_correct"}) \ {"password"} |->
              IF k = "password_correct" THEN "True" ELSE ss[k]]
    ELSE [k \in DOMAIN ss \cup {"password_correct"} |->
              IF k = "password_correct" THEN "False" ELSE ss[k]]

\* check_password(): what it returns and what it renders.
check_password(ss) ==
    IF "password_correct" \notin DOMAIN ss
    THEN [ok |-> FALSE, rendered |-> {"password_input"}]
    ELSE IF ss["password_correct"] # "True"
    THEN [ok |-> FALSE, rendered |-> {"password_input", "password_incorrect"}]
    ELSE [ok |-> TRUE, rendered |-> {}]

Dashboard == {"filters", "summary_chart", "sector_detail"}

\* st.text_input(..., key="password"): the key is in the session state
\* once the input is rendered, with the empty text when it was not there.
text_input(ss) ==
    IF "password" \in DOMAIN ss THEN ss
    ELSE [k \in DOMAIN ss \cup {"password"} |->
              IF k = "password" THEN "" ELSE ss[k]]

\* One run of the script under session state ss, file f and cache entry c:
\* what it renders, what load_data gave, and the session state and cache
\* afterwards.
ScriptRun(ss, f, c) ==
    LET gate == check_password(ss)
    IN IF ~gate.ok
       THEN [view |-> gate.rendered, loaded |-> NotRun, cache |-> c,
             widget |-> TRUE, ss |-> text_input(ss)]
       ELSE LET res == IF c.kind # "notrun" THEN c ELSE load_data(f)
            IN IF res.kind = "raised"
               THEN [view |-> {"exception"}, loaded |-> res, cache |-> c,
                     widget |-> FALSE, ss |-> ss]
               ELSE IF res.none \/ res.summary_df.rows = 0
               THEN \* st.stop()
                    [view |-> res.errors, loaded |-> res, cache |-> res,
                     widget |-> FALSE, ss |-> ss]
               ELSE [view |-> res.errors \cup Dashboard, loaded |-> res,
                     cache |-> res, widget |-> FALSE, ss |-> ss]

VARIABLES
    grid,          \* sheet_df: the rows of the sheet
    title,         \* table_title
    outcome,       \* "none" before the call; "table", "notfound" or "fault"
    start_row,     \* find_table_start's result
    header_row,    \* sheet_df.iloc[start_row + 1]
    table_df,      \* the rows sheet_df.iloc[data_start_row:table_end_row]
    new_columns,   \* the column names after the duplicate loop
    shown,         \* the frame handed to st.dataframe
    notice,        \* "info" or "warning" when the table is not found
    seen,          \* the dict of the duplicate loop
    col_i,         \* the duplicate loop's position in the header
    wb,            \* what opening the workbook and its sheet does
    sheet_images,  \* sheet._images
    images,        \* the dict extract_images_from_sheet returns
    img_i,         \* the number of images the loop has been through
    ipc,           \* extract_images_from_sheet: "start", "loop", "done"
    reported,      \* st.error was called by the except clause
    file,          \* what is at EXCEL_FILE_PATH
    session_state, \* st.session_state: the keys it holds
    widget,        \* the last run rendered the password text_input
    view,          \* what the last run of the script rendered
    loaded,        \* what load_data returned in the last run
    cache,         \* the st.cache_data entry of load_data
    event          \* what caused the last run

tvars == <<grid, title, outcome, start_row, header_row, table_df,
           new_columns, shown, notice>>
dvars == <<seen, col_i>>
ivars == <<wb, sheet_images, images, img_i, ipc, reported>>
svars == <<file, session_state, widget, view, loaded, cache, event>>
vars == <<tvars, dvars, ivars, svars>>

\* The sheets of the model: rectangular, within the bounds.
Shapes ==
    {s \in (0..MaxRows) \X (1..MaxCols) : s[1] * s[2] <= MaxCells}

Grids ==
    UNION {[1..s[1] -> [1..s[2] -> GridCells]] : s \in Shapes}

TableInit ==
    /\ grid \in Grids
    /\ title \in Titles
    /\ outcome = "none"
    /\ start_row = None
    /\ header_row = <<>>
    /\ table_df = <<>>
    /\ new_columns = <<>>
    /\ shown = NoFrame
    /\ notice = "none"

DedupIdle ==
    /\ seen = EmptyDict
    /\ col_i = 0

TableIdle ==
    /\ grid = <<>>
    /\ title = <<>>
    /\ outcome = "none"
    /\ start_row = None
    /\ header_row = <<>>
    /\ table_df = <<>>
    /\ new_columns = <<>>
    /\ shown = NoFrame
    /\ notice = "none"

ImagesIdle ==
    /\ wb = "ok"
    /\ sheet_images = <<>>
    /\ images = EmptyDict
    /\ img_i = 0
    /\ ipc = "start"
    /\ reported = FALSE

SessionIdle ==
    /\ file = MissingFile
    /\ session_state = EmptyDict
    /\ widget = FALSE
    /\ view = {}
    /\ loaded = NotRun
    /\ cache = NotRun
    /\ event = [kind |-> "none", value |-> ""]

\* display_table_from_sheet(sheet_df, table_title)
DisplayTable ==
    /\ outcome = "none"
    /\ LET start == find_table_start(grid, title)
       IN /\ start_row' = start
          /\ IF start = None
             THEN /\ outcome' = "notfound"
                  /\ notice' = IF Contains(title, Forbidden)
                               THEN "info" ELSE "warning"
                  /\ UNCHANGED <<header_row, table_df, new_columns, shown>>
             ELSE IF start + 1 >= Len(grid)
             THEN \* sheet_df.iloc[start_row + 1] raises IndexError
                  /\ outcome' = "fault"
                  /\ UNCHANGED <<header_row, table_df, new_columns, shown,
                                 notice>>
             ELSE LET data_start_row == start + 2
                      table_end_row == find_table_end(grid, data_start_row)
                      rows == SubSeq(grid, data_start_row + 1, table_end_row)
                      names == Dedup(grid[start + 2])
                  IN /\ outcome' = "table"
                     /\ header_row' = grid[start + 2]
                     /\ table_df' = rows
                     /\ new_columns' = names
                     /\ shown' = Frame(rows, names)
                     /\ UNCHANGED notice
    /\ UNCHANGED <<grid, title, dvars, ivars, svars>>

Init == TableInit /\ DedupIdle /\ ImagesIdle /\ SessionIdle

Next == DisplayTable

Spec == Init /\ [][Next]_vars

\* ------------------------------------------- the duplicate-column loop
\* The loop of display_table_from_sheet over table_df.columns.astype(str),
\* one pass per step, on header rows of up to MaxHeader cells.
HeaderCells == {NullCell, Text(sA), Text(sB)}

Headers == UNION {[1..n -> HeaderCells] : n \in 0..MaxHeader}

DedupInit ==
    /\ header_row \in Headers
    /\ new_columns = <<>>
    /\ seen = EmptyDict
    /\ col_i = 0
    /\ grid = <<>>
    /\ title = <<>>
    /\ outcome = "none"
    /\ start_row = None
    /\ table_df = <<>>
    /\ shown = NoFrame
    /\ notice = "none"
    /\ ImagesIdle
    /\ SessionIdle

DedupLoop ==
    /\ col_i < Len(header_row)
    /\ LET st == DedupStep([seen |-> seen, cols |-> new_columns],
                           AsTypeStr(header_row)[col_i + 1])
       IN /\ seen' = st.seen
          /\ new_columns' = st.cols
    /\ col_i' = col_i + 1
    /\ UNCHANGED <<grid, title, outcome, start_row, header_row, table_df,
                   shown, notice, ivars, svars>>

DedupNext == DedupLoop

SpecDedup == DedupInit /\ [][DedupNext]_vars

\* ------------------------------------------- extract_images_from_sheet
\* The anchors of the model: rows on both sides of PlotRow, the two plot
\* columns and one other; an image whose anchor cannot be read.
ImageRows == {5, PlotRow - 1, PlotRow, 25}
ImageCols == {Plot1Col, 5, Plot2Col}
MaxImages == 3

ImageKinds ==
    [row : ImageRows, col : ImageCols, anchor_ok : {TRUE}]
        \cup {[row |-> 0, col |-> 0, anchor_ok |-> FALSE]}

\* The image lists: image.ref is the image's position in the list.
ImageLists ==
    UNION {{[i \in 1..n |-> [row |-> k[i].row, col |-> k[i].col,
                             anchor_ok |-> k[i].anchor_ok, ref |-> i]] :
               k \in [1..n -> ImageKinds]} : n \in 0..MaxImages}

ImagesInit ==
    /\ \/ wb = "ok" /\ sheet_images \in ImageLists
       \/ wb \in {"unopenable", "no_sheet"} /\ sheet_images = <<>>
    /\ images = EmptyDict
    /\ img_i = 0
    /\ ipc = "start"
    /\ reported = FALSE
    /\ TableIdle
    /\ DedupIdle
    /\ SessionIdle

\* openpyxl.load_workbook(excel_path); workbook[sheet_name]
OpenSheet ==
    /\ ipc = "start"
    /\ IF wb = "ok"
       THEN ipc' = "loop" /\ UNCHANGED reported
       ELSE \* the except clause
            ipc' = "done" /\ reported' = TRUE
    /\ UNCHANGED <<wb, sheet_images, images, img_i, tvars, dvars, svars>>

\* One pass of  for image in sheet._images
ImageLoop ==
    /\ ipc = "loop"
    /\ img_i < Len(sheet_images)
    /\ LET image == sheet_images[img_i + 1]
       IN IF image.anchor_ok
          THEN /\ images' = Classify(images, image)
               /\ img_i' = img_i + 1
               /\ UNCHANGED <<ipc, reported>>
          ELSE \* image.anchor._from raises: the except clause
               /\ ipc' = "done"
               /\ reported' = TRUE
               /\ UNCHANGED <<images, img_i>>
    /\ UNCHANGED <<wb, sheet_images, tvars, dvars, svars>>

\* return images
ReturnImages ==
    /\ ipc = "loop"
    /\ img_i = Len(sheet_images)
    /\ ipc' = "done"
    /\ UNCHANGED <<wb, sheet_images, images, img_i, reported, tvars, dvars,
                   svars>>

ImagesNext == OpenSheet \/ ImageLoop \/ ReturnImages

SpecImages == ImagesInit /\ [][ImagesNext]_vars

\* ------------------------------------------------- the script's session
SheetNames == {Introduction, "S1", "S2"}
SheetContent(name) ==
    IF name = Introduction THEN "index" ELSE IF name = "S1" THEN "grid1"
    ELSE "grid2"

Workbooks ==
    {[kind |-> "workbook", sheets |-> [n \in names |-> SheetContent(n)],
      intro_rows |-> rows] :
        names \in (SUBSET SheetNames) \ {{}}, rows \in {0, 2}}

Files ==
    {MissingFile, UnreadableFile}
        \cup {w \in Workbooks :
                 Introduction \notin DOMAIN w.sheets => w.intro_rows = 0}

Inputs == {Password, "wrong", "guess", ""}

SessionInit ==
    /\ file \in Files
    /\ session_state = EmptyDict
    /\ widget = FALSE
    /\ view = {}
    /\ loaded = NotRun
    /\ cache = NotRun
    /\ event = [kind |-> "none", value |-> ""]
    /\ TableIdle
    /\ DedupIdle
    /\ ImagesIdle

RunWith(ss) ==
    LET r == ScriptRun(ss, file, cache)
    IN /\ session_state' = r.ss
       /\ widget' = r.widget
       /\ view' = r.view
       /\ loaded' = r.loaded
       /\ cache' = r.cache

\* A run of the script that no password submission caused: the first run
\* of the session, or a rerun after another widget changed.
Rerun ==
    /\ RunWith(session_state)
    /\ event' = [kind |-> "rerun", value |-> ""]
    /\ UNCHANGED <<file, tvars, dvars, ivars>>

\* The user submits p in the password input: the widget value changes,
\* password_entered runs, then the script.
Submit ==
    /\ widget
    /\ \E p \in Inputs :
          /\ p # session_state["password"]
          /\ RunWith(password_entered([session_state EXCEPT !["password"] = p]))
          /\ event' = [kind |-> "submit", value |-> p]
    /\ UNCHANGED <<file, tvars, dvars, ivars>>

SessionNext == Rerun \/ Submit

SpecSession == SessionInit /\ [][SessionNext]_vars

\* =====================================================================
\* Claims about the table locator
\* =====================================================================

\* The row text the specification describes: the cell values, stringified
\* and joined by whitespace.
RECURSIVE JoinFrom(_, _)
JoinFrom(row, c) ==
    IF c > Len(row) THEN <<>>
    ELSE Repr(row[c]) \o (IF c < Len(row) THEN <<" ">> ELSE <<>>)
         \o JoinFrom(row, c + 1)

ConcatText(row) == JoinFrom(row, 1)

TitleRows == {i \in 0..(Len(grid) - 1) : Contains(ConcatText(grid[i + 1]), title)}

\* C1 (as claimed): locating a table gives NotFound when no row's
\* concatenated cell text contains the title, and otherwise takes as title
\* row the first row whose concatenated cell values contain it.
C1_FirstRowWithTitleInCells ==
    outcome # "none" =>
        IF TitleRows = {}
        THEN start_row = None
        ELSE /\ start_row \in TitleRows
             /\ \A i \in TitleRows : start_row <= i

\* The rows at or after the first data row in which every cell is empty.
EmptyRowsFrom(first) ==
    {i \in first..(Len(grid) - 1) :
        \A c \in 1..Len(grid[i + 1]) : grid[i + 1][c] = NullCell}

TableEnd(first) ==
    IF EmptyRowsFrom(first) = {} THEN Len(grid)
    ELSE CHOOSE e \in EmptyRowsFrom(first) : \A i \in EmptyRowsFrom(first) : e <= i

\* C2: for a located table with title row r the header is row r+1 and the
\* data rows are exactly the sheet's rows from r+2 up to, not including,
\* the first fully empty row at or after r+2 (the sheet's end if there is
\* none); the rows shown are those rows, in the columns that are kept.
C2_HeaderAndDataExtent ==
    outcome = "table" =>
        LET first == start_row + 2
            n == TableEnd(first) - first
        IN /\ header_row = grid[start_row + 2]
           /\ n >= 0
           /\ table_df = [k \in 1..n |-> grid[first + k]]
           /\ shown.index = [k \in 1..n |-> k - 1]
           /\ \A k \in 1..n : \A c \in 1..Len(shown.origin) :
                 shown.cells[k][c] = grid[first + k][shown.origin[c] + 1]

\* C2 witness: one data row, then a fully empty row, then a row that is
\* not empty and is left out.
C2_Witness ==
    /\ outcome = "table"
    /\ Len(grid) = 5
    /\ start_row = 0
    /\ Len(table_df) = 1
    /\ Len(shown.index) = 1
    /\ AllNull(grid[4])
    /\ ~AllNull(grid[5])

\* C3 (as claimed): the column names of the table shown are pairwise
\* distinct.
C3_ColumnNamesDistinct ==
    outcome = "table" =>
        \A i, j \in 1..Len(shown.columns) :
            i # j => shown.columns[i] # shown.columns[j]

Increasing(q) == \A i, j \in 1..Len(q) : i < j => q[i] < q[j]

\* C4: in the table shown no row is entirely empty and no column is
\* entirely empty, and the rows and columns that remain are those of the
\* extracted table in their original relative order.
C4_NoEmptyRowOrColumn ==
    outcome = "table" =>
        /\ \A r \in 1..Len(shown.cells) :
              \E c \in 1..Len(shown.columns) : shown.cells[r][c] # NullCell
        /\ \A c \in 1..Len(shown.columns) :
              \E r \in 1..Len(shown.cells) : shown.cells[r][c] # NullCell
        /\ Len(shown.cells) = Len(shown.index)
        /\ Len(shown.origin) = Len(shown.columns)
        /\ Increasing(shown.index)
        /\ Increasing(shown.origin)
        /\ \A r \in 1..Len(shown.index) :
              /\ shown.index[r] \in 0..(Len(table_df) - 1)
              /\ \A c \in 1..Len(shown.origin) :
                    /\ shown.origin[c] \in 0..(Len(header_row) - 1)
                    /\ shown.columns[c] = new_columns[shown.origin[c] + 1]
                    /\ shown.cells[r][c] =
                         table_df[shown.index[r] + 1][shown.origin[c] + 1]

\* C4 witness: a table whose middle column is entirely empty and is
\* dropped, the columns on both sides of it kept in order.
C4_Witness ==
    /\ outcome = "table"
    /\ Len(header_row) = 3
    /\ Len(table_df) >= 1
    /\ shown.origin = <<0, 2>>

\* C5: the duplicate loop keeps the first occurrence of a stringified
\* name and renames its n-th later occurrence <name>_<n>; the number and
\* order of the columns is unchanged.
C5_DedupNaming ==
    /\ Len(new_columns) = col_i
    /\ \A i \in 1..col_i :
          LET name == Str(header_row[i])
              n == Cardinality({j \in 1..(i - 1) : Str(header_row[j]) = name})
          IN new_columns[i] =
                IF n = 0 THEN name ELSE name \o <<"_">> \o Digits(n)

\* C5 witness: ["A","B","A","A"] has become ["A","B","A_1","A_2"].
C5_Witness ==
    /\ header_row = <<Text(sA), Text(sB), Text(sA), Text(sA)>>
    /\ col_i = 4
    /\ new_columns = <<<<"A">>, <<"B">>, <<"A", "_", "1">>, <<"A", "_", "2">>>>

\* C6 (as claimed): locating a table ends with a table or a not-found
\* notice, never with an unhandled fault.
C6_TableOrNotFound == outcome \in {"none", "table", "notfound"}

\* =====================================================================
\* Claims about the image locator
\* =====================================================================

\* The images among the first n of the list that qualify for a slot.
QualifyPlot1(n) ==
    {i \in 1..n : sheet_images[i].row >= 19 /\ sheet_images[i].col = 0}

QualifyPlot2(n) ==
    {i \in 1..n : sheet_images[i].row >= 19 /\ sheet_images[i].col = 11}

FirstOf(S) == CHOOSE i \in S : \A j \in S : i <= j

SlotIsFirstOf(slot, S) ==
    IF S = {} THEN slot \notin DOMAIN images
    ELSE /\ slot \in DOMAIN images
         /\ images[slot] = sheet_images[FirstOf(S)].ref

\* C7: at every point of the loop, and so when it has gone through the
\* whole list, the mapping has keys only from {plot1, plot2}; plot1 is the
\* first image so far with row >= 19 and column 0, plot2 the first with
\* row >= 19 and column 11, each absent if there is none; a later image
\* never replaces a slot, and any other image is ignored.
C7_FirstQualifyingImagePerSlot ==
    /\ DOMAIN images \subseteq {"plot1", "plot2"}
    /\ SlotIsFirstOf("plot1", QualifyPlot1(img_i))
    /\ SlotIsFirstOf("plot2", QualifyPlot2(img_i))
    /\ (ipc = "done" /\ ~reported) => img_i = Len(sheet_images)

\* C7 witness: the list (25,0), a second image that also qualifies for
\* plot1, (25,11) has been gone through: plot1 is the first image, plot2
\* the third.
C7_Witness ==
    /\ ipc = "done"
    /\ ~reported
    /\ Len(sheet_images) = 3
    /\ sheet_images[1].row = 25 /\ sheet_images[1].col = 0
    /\ sheet_images[2].row >= 19 /\ sheet_images[2].col = 0
    /\ sheet_images[3].row = 25 /\ sheet_images[3].col = 11
    /\ DOMAIN images = {"plot1", "plot2"}
    /\ images["plot1"] = 1
    /\ images["plot2"] = 3

\* Reading the sheet's images fails: the workbook cannot be opened, the
\* sheet is missing, or an image's anchor cannot be read.
ImageReadFails ==
    \/ wb # "ok"
    \/ \E i \in 1..Len(sheet_images) : ~sheet_images[i].anchor_ok

\* C8 (as claimed): when reading a sheet's images fails, the failure is
\* reported and the mapping returned is empty.
C8_FailureGivesEmptyMapping ==
    (ipc = "done" /\ ImageReadFails) =>
        /\ reported
        /\ DOMAIN images = {}

\* =====================================================================
\* Claims about the loader and the password gate
\* =====================================================================

PasswordCorrect(ss) ==
    /\ "password_correct" \in DOMAIN ss
    /\ ss["password_correct"] = "True"

C10_PasswordGate ==
    [][ /\ (loaded'.kind # "notrun" \/ view' \cap Dashboard # {})
              => PasswordCorrect(session_state')
        /\ (~PasswordCorrect(session_state) /\ PasswordCorrect(session_state'))
              => (event'.kind = "submit" /\ event'.value = "mtn123")
        /\ (event'.kind = "submit" /\ event'.value # "mtn123")
              => /\ "password_correct" \in DOMAIN session_state'
                 /\ session_state'["password_correct"] = "False"
                 /\ "password_input" \in view'
                 /\ widget'
        /\ PasswordCorrect(session_state) => PasswordCorrect(session_state')
      ]_vars

\* C10 witness: the correct password has been submitted and the dashboard
\* is rendered.
C10_Witness ==
    /\ PasswordCorrect(session_state)
    /\ event = [kind |-> "submit", value |-> "mtn123"]
    /\ Dashboard \subseteq view
    /\ loaded.kind = "returned"

====
